---------------------------- MODULE Spec2Model ----------------------------
(***************************************************************************)
(* A model of SCP::Plot (src/simpleConsolePlot.hpp): the character grid,   *)
(* the view window, the auto-range bounds, the data set and the operations *)
(* that rasterize points and lines into the grid.                          *)
(*                                                                         *)
(* Doubles are modelled by integers.  Every data coordinate and every      *)
(* window bound the model feeds in is a small integer, so x - topLeft.x    *)
(* and its product with w are exact in double arithmetic, and the          *)
(* conversion of the quotient to int (truncation toward zero) equals the   *)
(* truncation of the exact rational quotient: a non-integral quotient of   *)
(* small integers is further from the next integer than any rounding       *)
(* error.  The infinities of the auto-range bounds are the sentinels       *)
(* PosInf and -PosInf.  The attribute byte int8_t co is modelled by its    *)
(* bit pattern 0..255.                                                     *)
(***************************************************************************)
EXTENDS Integers, Sequences, FiniteSets

VARIABLES
    w, h,              \* int w, h
    printBufNull,      \* printBuf == nullptr
    printBuf,          \* the cells printBuf[0 .. w*h-1], here indexed 1 .. w*h
    background,        \* int8_t background
    range,             \* bool range
    invertedY,         \* bool invertedY
    topLeft, dx, dy,   \* Point topLeft; double dx, dy
    minX, maxX, minY, maxY,
    points, lines,     \* the two unordered_maps, in iteration order
    nullWrite,         \* a handler wrote a cell through the null printBuf
    explicitData,      \* history: an entry of the data set was added with range set
    lineFirst,         \* history: every point of the data set was added after a line
    last,              \* history: the last operation and its arguments
    walk, cells, pc    \* printLine's loop run alone: locals, setCell calls so far

vars == <<w, h, printBufNull, printBuf, background, range, invertedY, topLeft,
          dx, dy, minX, maxX, minY, maxY, points, lines, nullWrite,
          explicitData, lineFirst, last, walk, cells, pc>>

plotVars == <<w, h, printBufNull, printBuf, background, range, invertedY,
              topLeft, dx, dy, minX, maxX, minY, maxY, points, lines,
              nullWrite, explicitData, lineFirst>>

lineVars == <<walk, cells, pc>>

-----------------------------------------------------------------------------
(* Program constants *)

EMPTY == 32
BLOCK == 0
BLACK == 0
WHITE == 15
DefaultW == 10
DefaultH == 10
PosInf == 1000000
Indeterminate == 999999

(* Bounds of the model *)

MaxPoints == 1       \* points in the data set
MaxLines == 1        \* lines in the data set
MaxLineCoord == 3    \* printLine run alone: mapped endpoints in -3 .. 3
MaxCellCoord == 2    \* setCell run alone: x and y in -1 .. 2

Colors == {BLACK, WHITE}
Literals == {97, 98}
Glyphs == {BLOCK} \cup Literals
PointCoords == {<<-1, 0>>, <<0, 0>>, <<0, 1>>, <<2, 1>>}
LineGlyphs == {BLOCK, 97}
LineColors == {WHITE}
Segments == {<<0, 0, 0, 1>>, <<0, 0, 2, 2>>}
Sizes == {<<1, 1>>, <<2, 1>>}
DrawRanges == {<<0, 0, 0, 0>>, <<0, 0, 2, 2>>}
UBInts == {-1, 0}

-----------------------------------------------------------------------------
(* Arithmetic *)

Abs(n) == IF n < 0 THEN -n ELSE n

IsFinite(v) == v # PosInf /\ v # -PosInf

\* A double that is a number: not an infinity, and not the indeterminate
\* value of a member that was never assigned.
IsNumber(v) == IsFinite(v) /\ v # Indeterminate

\* a - b on doubles, for the operands the program produces: two finite
\* values, or the unobserved bounds maxX = -inf, minX = +inf.
DSub(a, b) ==
    IF IsFinite(a) /\ IsFinite(b) THEN a - b
    ELSE IF IsFinite(b) THEN a
    ELSE -b

\* conversion of the double n/d to int: truncation toward zero
TruncDiv(n, d) ==
    LET q == Abs(n) \div Abs(d)
    IN  IF (n < 0) # (d < 0) THEN -q ELSE q

Lo(co) == co % 16
Hi(co) == co \div 16

-----------------------------------------------------------------------------
(* The coordinate mapping, printPoint and printLine lines 311, 315-318 *)

\* The window a handler maps with.
Window(tl, ddx, ddy) == [x |-> tl.x, y |-> tl.y, dx |-> ddx, dy |-> ddy]

\* (v - origin) * n / d converted to int.  With d = 0 or a non-finite
\* window the quotient is NaN or infinite and its conversion is undefined,
\* as is any use of a window that was never assigned: the result is ub, any
\* value the caller draws from UBInts.
ToInt(v, origin, n, d, ub) ==
    IF d = 0 \/ ~IsNumber(d) \/ ~IsNumber(origin) THEN ub
    ELSE TruncDiv((v - origin) * n, d)

MapX(win, x, ub) == ToInt(x, win.x, w, win.dx, ub)
MapY(win, y, ub) == ToInt(y, win.y, h * 2, win.dy, ub)

-----------------------------------------------------------------------------
(* The grid.  A grid value g is [buf, bad]: the cells, and whether a write *)
(* went through the null printBuf.                                         *)

BackgroundCell(bg) == [ch |-> EMPTY, co |-> (bg * 16 + bg) % 256]

\* clearPlot: nothing without a buffer, else every cell to the background
clearPlot(buf, isNull, bg) ==
    IF isNull THEN buf ELSE [i \in 1..Len(buf) |-> BackgroundCell(bg)]

\* new Cell[n] followed by clearPlot
NewCells(n, bg) == [i \in 1..n |-> BackgroundCell(bg)]

InBounds(x, y) == ~(x < 0 \/ x >= w \/ y < 0 \/ y >= h * 2)

\* index of printBuf[x + (y/2)*w], 1-based
CellIndex(x, y) == x + (y \div 2) * w + 1

\* the sub-row that takes the upper nibble: y, or y+1 with invertedY, is odd
UpperHalf(y) == (IF invertedY THEN y + 1 ELSE y) % 2 = 1

\* BlockWrite taking the nibble from the sub-row alone, whatever invertedY
BlockWriteNoInvert(c, y, color) ==
    [ch |-> IF c.ch = EMPTY THEN BLOCK ELSE c.ch,
     co |-> IF y % 2 = 1 THEN (Lo(c.co) + color * 16) % 256
            ELSE Hi(c.co) * 16 + color]

\* setCell with the default block, lines 291-296
BlockWrite(c, y, color) ==
    [ch |-> IF c.ch = EMPTY THEN BLOCK ELSE c.ch,
     co |-> IF UpperHalf(y) THEN (Lo(c.co) + color * 16) % 256
            ELSE Hi(c.co) * 16 + color]

\* setCell with a character, lines 299-306
CharWrite(c, color, character) ==
    [ch |-> character,
     co |-> IF c.ch = EMPTY THEN Hi(c.co) * 16 + color
            ELSE IF c.ch = BLOCK
                 THEN IF Lo(c.co) # background
                      THEN (Lo(c.co) * 16 + color) % 256
                      ELSE Hi(c.co) * 16 + color
            ELSE IF c.ch # character THEN (Lo(c.co) * 16 + color) % 256
            ELSE c.co]

setCell(g, x, y, color, character) ==
    IF ~InBounds(x, y) THEN g
    ELSE IF printBufNull \/ g.bad THEN [g EXCEPT !.bad = TRUE]
    ELSE LET i == CellIndex(x, y)
             c == g.buf[i]
         IN  [g EXCEPT !.buf[i] = IF character = BLOCK
                                  THEN BlockWrite(c, y, color)
                                  ELSE CharWrite(c, color, character)]

printPoint(g, win, p, color, character, ux, uy) ==
    setCell(g, MapX(win, p.x, ux), MapY(win, p.y, uy), color, character)

-----------------------------------------------------------------------------
(* printLine's loop, lines 319-339 *)

LineInit(x1, y1, x2, y2) ==
    [x1 |-> x1, y1 |-> y1, x2 |-> x2, y2 |-> y2,
     dx |-> Abs(x2 - x1), dy |-> Abs(y2 - y1),
     sx |-> IF x1 < x2 THEN 1 ELSE -1,
     sy |-> IF y1 < y2 THEN 1 ELSE -1,
     e1 |-> Abs(x2 - x1) - Abs(y2 - y1)]

LineDone(s) == s.x1 = s.x2 /\ s.y1 = s.y2

\* LineStep with the x test taken at equality too: e1 >= -dy
LineStepInclusive(s) ==
    LET e2 == s.e1 * 2
        a  == IF s.e1 >= -s.dy
              THEN [s EXCEPT !.e1 = s.e1 - s.dy, !.x1 = s.x1 + s.sx]
              ELSE s
    IN  IF e2 < s.dx
        THEN [a EXCEPT !.e1 = a.e1 + s.dx, !.y1 = a.y1 + s.sy]
        ELSE a

\* one pass of the loop body after the break test, lines 330-338
LineStep(s) ==
    LET e2 == s.e1 * 2
        a  == IF s.e1 > -s.dy
              THEN [s EXCEPT !.e1 = s.e1 - s.dy, !.x1 = s.x1 + s.sx]
              ELSE s
    IN  IF e2 < s.dx
        THEN [a EXCEPT !.e1 = a.e1 + s.dx, !.y1 = a.y1 + s.sy]
        ELSE a

\* the coordinates printLine passes to setCell, in order
RECURSIVE LineCells(_)
LineCells(s) ==
    IF LineDone(s) THEN << <<s.x1, s.y1>> >>
    ELSE << <<s.x1, s.y1>> >> \o LineCells(LineStep(s))

RECURSIVE SetCells(_, _, _, _)
SetCells(g, cs, color, character) ==
    IF cs = << >> THEN g
    ELSE SetCells(setCell(g, Head(cs)[1], Head(cs)[2], color, character),
                  Tail(cs), color, character)

LineEnds(win, l, ux, uy) ==
    LineInit(MapX(win, l.a.x, ux), MapY(win, l.a.y, uy),
             MapX(win, l.b.x, ux), MapY(win, l.b.y, uy))

printLine(g, win, l, color, character, ux, uy) ==
    SetCells(g, LineCells(LineEnds(win, l, ux, uy)), color, character)

-----------------------------------------------------------------------------
(* The data set: each unordered_map is the sequence of its (key, vector)   *)
(* pairs in iteration order.                                               *)

Key(character, color) == [ch |-> character, co |-> color]

HasKey(m, k) == \E i \in 1..Len(m) : m[i].key = k

\* map[k].push_back(v) on an existing key: the iteration order stays
PushBack(m, k, v) ==
    [i \in 1..Len(m) |->
        IF m[i].key = k THEN [m[i] EXCEPT !.items = Append(@, v)] ELSE m[i]]

\* map[k].push_back(v) with a new key: the standard fixes no iteration
\* order, and an insertion may rehash: any order of the pairs is possible.
InsertOrders(m, k, v) ==
    LET e == [key |-> k, items |-> <<v>>]
        S == {m[i] : i \in 1..Len(m)} \cup {e}
    IN  {s \in [1..Len(m) + 1 -> S] :
            \A i, j \in 1..Len(m) + 1 : i # j => s[i] # s[j]}

Added(m, k, v) == IF HasKey(m, k) THEN {PushBack(m, k, v)} ELSE InsertOrders(m, k, v)

RECURSIVE Count(_)
Count(m) == IF m = << >> THEN 0 ELSE Len(Head(m).items) + Count(Tail(m))

\* the entries in the order the loops of render visit them
RECURSIVE Entries(_)
Entries(m) ==
    IF m = << >> THEN << >>
    ELSE [i \in 1..Len(Head(m).items) |->
             [it |-> Head(m).items[i], key |-> Head(m).key]] \o Entries(Tail(m))

RECURSIVE printLines(_, _, _, _, _)
printLines(g, win, es, ux, uy) ==
    IF es = << >> THEN g
    ELSE printLines(printLine(g, win, Head(es).it, Head(es).key.co, Head(es).key.ch, ux, uy),
                    win, Tail(es), ux, uy)

RECURSIVE printPoints(_, _, _, _, _)
printPoints(g, win, es, ux, uy) ==
    IF es = << >> THEN g
    ELSE printPoints(printPoint(g, win, Head(es).it, Head(es).key.co, Head(es).key.ch, ux, uy),
                     win, Tail(es), ux, uy)

\* rasterize with the loops in the other order: every point, then every line
rasterizePointsFirst(g, win, ux, uy) ==
    printLines(printPoints(g, win, Entries(points), ux, uy), win, Entries(lines), ux, uy)

\* the two loops of render, lines 217-223: every line, then every point
rasterize(g, win, ux, uy) ==
    printPoints(printLines(g, win, Entries(lines), ux, uy), win, Entries(points), ux, uy)

Grid == [buf |-> printBuf, bad |-> FALSE]

-----------------------------------------------------------------------------
(* Construction *)

Idle == LineInit(0, 0, 0, 0)

\* the member initializers, lines 44-57; topLeft, dx and dy have none
Members ==
    /\ background = BLACK
    /\ range = FALSE
    /\ invertedY = FALSE
    /\ topLeft = [x |-> Indeterminate, y |-> Indeterminate]
    /\ dx = Indeterminate
    /\ dy = Indeterminate
    /\ minX = PosInf /\ maxX = -PosInf /\ minY = PosInf /\ maxY = -PosInf
    /\ points = << >>
    /\ lines = << >>
    /\ nullWrite = FALSE
    /\ explicitData = FALSE
    /\ lineFirst = TRUE

\* Plot()
PlotDefault ==
    /\ Members
    /\ w = DefaultW /\ h = DefaultH
    /\ printBufNull = TRUE
    /\ printBuf = << >>

\* Plot(length, lines)
PlotSized ==
    /\ Members
    /\ \E sz \in Sizes :
          /\ w = sz[1] /\ h = sz[2]
          /\ printBuf = NewCells(sz[1] * sz[2], BLACK)
    /\ printBufNull = FALSE

Init ==
    /\ PlotDefault \/ PlotSized
    /\ last = [op |-> "other", args |-> << >>]
    /\ walk = Idle /\ cells = << >> /\ pc = "idle"

-----------------------------------------------------------------------------
(* The operations.  A handler that wrote through the null printBuf has     *)
(* crashed the program: nothing runs after it.                             *)

Running == ~nullWrite /\ pc = "idle"

invertYAxis(a) ==
    /\ Running
    /\ invertedY' = a
    /\ last' = [op |-> "other", args |-> << >>]
    /\ UNCHANGED <<w, h, printBufNull, printBuf, background, range, topLeft,
                   dx, dy, minX, maxX, minY, maxY, points, lines, nullWrite,
                   explicitData, lineFirst, lineVars>>

setSize(length, nlines) ==
    /\ Running
    /\ w' = length
    /\ h' = nlines
    /\ printBufNull' = FALSE
    /\ printBuf' = NewCells(length * nlines, background)
    /\ last' = [op |-> "other", args |-> << >>]
    /\ UNCHANGED <<background, range, invertedY, topLeft, dx, dy, minX, maxX,
                   minY, maxY, points, lines, nullWrite, explicitData, lineFirst,
                   lineVars>>

setDrawRange(x1, y1, x2, y2) ==
    /\ Running
    /\ topLeft' = [x |-> x1, y |-> y1]
    /\ dx' = x2 - x1
    /\ dy' = y2 - y1
    /\ range' = (x2 - x1 # 0)
    /\ printBuf' = clearPlot(printBuf, printBufNull, background)
    /\ last' = [op |-> "other", args |-> << >>]
    /\ UNCHANGED <<w, h, printBufNull, background, invertedY, minX, maxX, minY,
                   maxY, points, lines, nullWrite, explicitData, lineFirst,
                   lineVars>>

setBackgroundColor(color) ==
    /\ Running
    /\ background' = color
    /\ last' = [op |-> "other", args |-> << >>]
    /\ UNCHANGED <<w, h, printBufNull, printBuf, range, invertedY, topLeft, dx,
                   dy, minX, maxX, minY, maxY, points, lines, nullWrite,
                   explicitData, lineFirst, lineVars>>

clearData ==
    /\ Running
    /\ printBuf' = clearPlot(printBuf, printBufNull, background)
    /\ minX' = PosInf /\ minY' = PosInf /\ maxX' = -PosInf /\ maxY' = -PosInf
    /\ points' = << >>
    /\ lines' = << >>
    /\ explicitData' = FALSE
    /\ lineFirst' = TRUE
    /\ last' = [op |-> "other", args |-> << >>]
    /\ UNCHANGED <<w, h, printBufNull, background, range, invertedY, topLeft,
                   dx, dy, nullWrite, lineVars>>

\* updateXYMinMax on the bounds b = [minX, minY, maxX, maxY]
updateXYMinMax(b, p) ==
    [minX |-> IF b.minX > p.x THEN p.x ELSE b.minX,
     minY |-> IF b.minY > p.y THEN p.y ELSE b.minY,
     maxX |-> IF b.maxX < p.x THEN p.x ELSE b.maxX,
     maxY |-> IF b.maxY < p.y THEN p.y ELSE b.maxY]

Bounds == [minX |-> minX, minY |-> minY, maxX |-> maxX, maxY |-> maxY]

SetBounds(b) ==
    minX' = b.minX /\ minY' = b.minY /\ maxX' = b.maxX /\ maxY' = b.maxY

\* the grid a handler leaves: the cells, and whether it crashed
SetGrid(g) == printBuf' = g.buf /\ nullWrite' = g.bad

\* point that stores the point and never draws it
pointDeferred(x, y, color, character) ==
    /\ Running
    /\ Count(points) < MaxPoints
    /\ points' \in Added(points, Key(character, color), [x |-> x, y |-> y])
    /\ SetBounds(updateXYMinMax(Bounds, [x |-> x, y |-> y]))
    /\ lineFirst' = (lineFirst /\ Count(lines) > 0)
    /\ last' = [op |-> "point", args |-> <<x, y, color, character>>]
    /\ UNCHANGED <<w, h, printBufNull, printBuf, background, range, invertedY,
                   topLeft, dx, dy, lines, nullWrite, explicitData, lineVars>>

point(x, y, color, character) ==
    /\ Running
    /\ Count(points) < MaxPoints
    /\ points' \in Added(points, Key(character, color), [x |-> x, y |-> y])
    /\ IF range
       THEN /\ \E ux, uy \in UBInts :
                  SetGrid(printPoint(Grid, Window(topLeft, dx, dy), [x |-> x, y |-> y],
                                     color, character, ux, uy))
            /\ explicitData' = TRUE
            /\ UNCHANGED <<minX, maxX, minY, maxY>>
       ELSE /\ SetBounds(updateXYMinMax(Bounds, [x |-> x, y |-> y]))
            /\ UNCHANGED <<printBuf, nullWrite, explicitData>>
    /\ lineFirst' = (lineFirst /\ Count(lines) > 0)
    /\ last' = [op |-> "point", args |-> <<x, y, color, character>>]
    /\ UNCHANGED <<w, h, printBufNull, background, range, invertedY, topLeft,
                   dx, dy, lines, lineVars>>

line(x1, y1, x2, y2, color, character) ==
    LET l == [a |-> [x |-> x1, y |-> y1], b |-> [x |-> x2, y |-> y2]]
    IN  /\ Running
        /\ Count(lines) < MaxLines
        /\ lines' \in Added(lines, Key(character, color), l)
        /\ IF range
           THEN /\ \E ux, uy \in UBInts :
                      SetGrid(printLine(Grid, Window(topLeft, dx, dy), l,
                                        color, character, ux, uy))
                /\ explicitData' = TRUE
                /\ UNCHANGED <<minX, maxX, minY, maxY>>
           ELSE /\ SetBounds(updateXYMinMax(updateXYMinMax(Bounds, l.a), l.b))
                /\ UNCHANGED <<printBuf, nullWrite, explicitData>>
        /\ last' = [op |-> "other", args |-> << >>]
        /\ UNCHANGED <<w, h, printBufNull, background, range, invertedY,
                       topLeft, dx, dy, points, lineFirst, lineVars>>

\* the window render maps with: the bounding box seen so far without a range
RenderWindow ==
    IF range THEN Window(topLeft, dx, dy)
    ELSE Window([x |-> minX, y |-> minY], DSub(maxX, minX), DSub(maxY, minY))

render ==
    /\ Running
    /\ topLeft' = [x |-> RenderWindow.x, y |-> RenderWindow.y]
    /\ dx' = RenderWindow.dx
    /\ dy' = RenderWindow.dy
    /\ \E ux, uy \in UBInts : SetGrid(rasterize(Grid, RenderWindow, ux, uy))
    /\ last' = [op |-> "render", args |-> << >>]
    /\ UNCHANGED <<w, h, printBufNull, background, range, invertedY, minX, maxX,
                   minY, maxY, points, lines, explicitData, lineFirst, lineVars>>

Next ==
    \/ \E a \in BOOLEAN : invertYAxis(a)
    \/ \E sz \in Sizes : setSize(sz[1], sz[2])
    \/ \E r \in DrawRanges : setDrawRange(r[1], r[2], r[3], r[4])
    \/ \E c \in Colors : setBackgroundColor(c)
    \/ clearData
    \/ \E p \in PointCoords, c \in Colors, g \in Glyphs : point(p[1], p[2], c, g)
    \/ \E s \in Segments, c \in LineColors, g \in LineGlyphs : line(s[1], s[2], s[3], s[4], c, g)
    \/ render

Spec == Init /\ [][Next]_vars

-----------------------------------------------------------------------------
(* printLine's loop run alone, one pass per step, from every pair of       *)
(* mapped endpoints in -MaxLineCoord .. MaxLineCoord.                      *)

LineCoords == -MaxLineCoord..MaxLineCoord

\* more passes than any walk between two such endpoints needs
WalkCap == 4 * MaxLineCoord + 2

LineSpecInit ==
    /\ PlotDefault
    /\ \E x1, y1, x2, y2 \in LineCoords :
          /\ walk = LineInit(x1, y1, x2, y2)
          /\ last = [op |-> "printLine", args |-> <<x1, y1, x2, y2>>]
    /\ cells = << >>
    /\ pc = "loop"

\* setCell(x1, y1) at the target: break, lines 326-328
LineBreak ==
    /\ pc = "loop"
    /\ LineDone(walk)
    /\ cells' = Append(cells, <<walk.x1, walk.y1>>)
    /\ pc' = "done"
    /\ UNCHANGED <<plotVars, last, walk>>

\* setCell(x1, y1) elsewhere, and the step to the next coordinate
LineAdvance ==
    /\ pc = "loop"
    /\ ~LineDone(walk)
    /\ Len(cells) < WalkCap
    /\ cells' = Append(cells, <<walk.x1, walk.y1>>)
    /\ walk' = LineStep(walk)
    /\ UNCHANGED <<plotVars, last, pc>>

LineNext == LineBreak \/ LineAdvance

\* the loop runs on once entered: nothing else is scheduled
LineSpec == LineSpecInit /\ [][LineNext]_vars /\ WF_vars(LineNext)

-----------------------------------------------------------------------------
(* setCell run alone: one call on a grid of arbitrary cells.               *)

CellSamples ==
    {[ch |-> c, co |-> a * 16 + b] : c \in {EMPTY, BLOCK, 97}, a \in Colors, b \in Colors}

CellCoords == -1..MaxCellCoord

\* a sized plot with any cell contents, invertedY and background
CellSpecInit ==
    /\ \E sz \in Sizes :
          /\ w = sz[1] /\ h = sz[2]
          /\ printBuf \in [1..sz[1] * sz[2] -> CellSamples]
    /\ printBufNull = FALSE
    /\ background \in Colors
    /\ invertedY \in BOOLEAN
    /\ range = FALSE
    /\ topLeft = [x |-> Indeterminate, y |-> Indeterminate]
    /\ dx = Indeterminate /\ dy = Indeterminate
    /\ minX = PosInf /\ maxX = -PosInf /\ minY = PosInf /\ maxY = -PosInf
    /\ points = << >> /\ lines = << >>
    /\ nullWrite = FALSE /\ explicitData = FALSE /\ lineFirst = TRUE
    /\ last = [op |-> "other", args |-> << >>]
    /\ walk = Idle /\ cells = << >> /\ pc = "idle"

setCellCall(x, y, color, character) ==
    /\ last.op = "other"
    /\ printBuf' = setCell(Grid, x, y, color, character).buf
    /\ last' = [op |-> "setCell", args |-> <<x, y, color, character>>]
    /\ UNCHANGED <<w, h, printBufNull, background, range, invertedY, topLeft,
                   dx, dy, minX, maxX, minY, maxY, points, lines, nullWrite,
                   explicitData, lineFirst, lineVars>>

CellNext ==
    \E x \in CellCoords, y \in CellCoords, c \in 0..15, g \in LineGlyphs :
        setCellCall(x, y, c, g)

CellSpec == CellSpecInit /\ [][CellNext]_vars

-----------------------------------------------------------------------------
(* What the claims speak of *)

\* n / d rounded down, for d # 0
FloorDiv(n, d) == IF d > 0 THEN n \div d ELSE (-n) \div (-d)

\* the column and the sub-row the specification's mapper gives a point
SpecCol(x) == FloorDiv((x - topLeft.x) * w, dx)
SpecSubRow(y) == FloorDiv((y - topLeft.y) * (2 * h), dy)

WindowValid == IsNumber(topLeft.x) /\ IsNumber(topLeft.y) /\ IsNumber(dx) /\ IsNumber(dy)
               /\ dx # 0 /\ dy # 0

OnGrid(col, sub) == col \in 0..(w - 1) /\ sub \in 0..(2 * h - 1)

\* the cell of (col, sub), 1-based
CellOf(col, sub) == col + (sub \div 2) * w + 1

\* the nibble a sub-row's parity selects: bits 4-7 for an odd sub-row, bits
\* 0-3 for an even one, swapped by invertedY
Upper(sub) == (sub % 2 = 1) # invertedY
Nibble(co, sub) == IF Upper(sub) THEN co \div 16 ELSE co % 16
OtherNibble(co, sub) == IF Upper(sub) THEN co % 16 ELSE co \div 16

\* every point and line endpoint of the data set
DataPoints ==
    {Entries(points)[i].it : i \in 1..Count(points)}
    \cup {Entries(lines)[i].it.a : i \in 1..Count(lines)}
    \cup {Entries(lines)[i].it.b : i \in 1..Count(lines)}

MinOf(S) == CHOOSE v \in S : \A u \in S : v <= u
MaxOf(S) == CHOOSE v \in S : \A u \in S : v >= u
DataXs == {q.x : q \in DataPoints}
DataYs == {q.y : q \in DataPoints}

\* the data point lies in the explicit window's rectangle
Inside(x, y) ==
    /\ range /\ WindowValid /\ dx > 0 /\ dy > 0
    /\ topLeft.x <= x /\ x < topLeft.x + dx
    /\ topLeft.y <= y /\ y < topLeft.y + dy

-----------------------------------------------------------------------------
(* C1 *)

\* C1: render() is idempotent: a render() that directly follows a render()
\* leaves every cell (glyph and attribute byte) as the first one left it.
C1RenderIdempotent ==
    [][(last.op = "render" /\ last'.op = "render" /\ WindowValid /\ ~nullWrite')
          => printBuf' = printBuf]_vars

(* C2 *)

\* C2: after render() the grid is the rasterization of the data set (all
\* lines, then all points) with the current window onto an all-background
\* grid, of whichever background color: nothing written before the call
\* survives.
C2RenderFromScratch ==
    (last.op = "render" /\ ~nullWrite /\ ~printBufNull) =>
        \E ux, uy \in UBInts, bg \in Colors :
            printBuf = rasterize([buf |-> NewCells(w * h, bg), bad |-> FALSE],
                                 Window(topLeft, dx, dy), ux, uy).buf

(* C3 *)

\* C3: after render() without an explicit window and with a non-empty data
\* set, the window is the bounding box of every point and line endpoint of
\* the data set, whatever mode each was added in.
C3AutoRangeBoundingBox ==
    (last.op = "render" /\ ~range /\ DataPoints # {}) =>
        /\ topLeft = [x |-> MinOf(DataXs), y |-> MinOf(DataYs)]
        /\ dx = MaxOf(DataXs) - MinOf(DataXs)
        /\ dy = MaxOf(DataYs) - MinOf(DataYs)

(* C4 *)

\* C4: without an explicit draw range the entire plot is displayed: after
\* render() of data added in that mode, with two distinct x and two distinct
\* y values, every point and line endpoint maps onto the grid and its cell
\* is no longer EMPTY.
C4EntirePlotDisplayed ==
    (/\ last.op = "render" /\ ~range /\ ~explicitData
     /\ ~nullWrite /\ ~printBufNull
     /\ Cardinality(DataXs) >= 2 /\ Cardinality(DataYs) >= 2) =>
        \A q \in DataPoints :
            /\ OnGrid(SpecCol(q.x), SpecSubRow(q.y))
            /\ printBuf[CellOf(SpecCol(q.x), SpecSubRow(q.y))].ch # EMPTY

(* C5 *)

\* C5: with an explicit window, a point whose column floor((x - origin.x) *
\* width / dx) or sub-row floor((y - origin.y) * 2*height / dy) is off the
\* grid changes no cell; it is still appended to the data set.
C5OffWindowDropped ==
    [][(/\ last'.op = "point" /\ range /\ WindowValid
        /\ ~OnGrid(SpecCol(last'.args[1]), SpecSubRow(last'.args[2])))
          => (printBuf' = printBuf /\ Count(points') = Count(points) + 1)]_vars

(* C6 *)

\* C6 as stated: once point() has returned for a point inside the explicit
\* window with the sentinel glyph and a color in 0..15, the nibble its
\* sub-row selects in its cell is the color and the cell's glyph is BLOCK,
\* whatever the cell held before.
C6ImmediateBlock ==
    [][(/\ last'.op = "point" /\ ~printBufNull /\ ~nullWrite'
        /\ last'.args[4] = BLOCK
        /\ last'.args[3] \in 0..15
        /\ Inside(last'.args[1], last'.args[2]))
          => LET col == SpecCol(last'.args[1])
                 sub == SpecSubRow(last'.args[2])
                 c   == printBuf'[CellOf(col, sub)]
             IN  Nibble(c.co, sub) = last'.args[3] /\ c.ch = BLOCK]_vars

\* C6 amended: once point() has returned for such a point, the nibble its
\* sub-row selects in its cell is the color; the glyph is BLOCK when the cell
\* was EMPTY or BLOCK before, and a literal glyph already there is kept.
C6ImmediateNibble ==
    [][(/\ last'.op = "point" /\ ~printBufNull /\ ~nullWrite'
        /\ last'.args[4] = BLOCK
        /\ last'.args[3] \in 0..15
        /\ Inside(last'.args[1], last'.args[2]))
          => LET col == SpecCol(last'.args[1])
                 sub == SpecSubRow(last'.args[2])
                 old == printBuf[CellOf(col, sub)]
                 c   == printBuf'[CellOf(col, sub)]
             IN  /\ Nibble(c.co, sub) = last'.args[3]
                 /\ c.ch = IF old.ch = EMPTY THEN BLOCK ELSE old.ch]_vars

\* a sentinel point has just been drawn over a literal glyph, which stays
C6Witness ==
    /\ last.op = "point" /\ ~nullWrite /\ last.args[4] = BLOCK
    /\ Inside(last.args[1], last.args[2])
    /\ LET sub == SpecSubRow(last.args[2])
           c   == printBuf[CellOf(SpecCol(last.args[1]), sub)]
       IN  c.ch \in Literals /\ Nibble(c.co, sub) = last.args[3]
           /\ OtherNibble(c.co, sub) # last.args[3]

(* C7 *)

ThePoint == Entries(points)[1]
TheLine == Entries(lines)[1]

\* a window every mapping through which is defined
Defined(win) ==
    /\ IsNumber(win.x) /\ IsNumber(win.y) /\ IsNumber(win.dx) /\ IsNumber(win.dy)
    /\ win.dx # 0 /\ win.dy # 0

\* where the code draws the only point, and the cells the only line visits
PointCol(win) == MapX(win, ThePoint.it.x, 0)
PointSub(win) == MapY(win, ThePoint.it.y, 0)
LinePath(win) == LineCells(LineEnds(win, TheLine.it, 0, 0))

\* the data set is one line and then one point of different colors, and
\* through the window win the line passes through the point's cell
Shared(win) ==
    /\ ~printBufNull /\ Defined(win)
    /\ Count(lines) = 1 /\ Count(points) = 1 /\ lineFirst
    /\ ThePoint.key.co # TheLine.key.co
    /\ LET col  == PointCol(win)
           sub  == PointSub(win)
           path == LinePath(win)
       IN  /\ OnGrid(col, sub)
           /\ \E k \in 1..Len(path) :
                 /\ OnGrid(path[k][1], path[k][2])
                 /\ CellOf(path[k][1], path[k][2]) = CellOf(col, sub)

C7Scene == ~nullWrite /\ Shared(Window(topLeft, dx, dy))
C7Col == PointCol(Window(topLeft, dx, dy))
C7Sub == PointSub(Window(topLeft, dx, dy))

\* C7 as stated: after a line and a point of different colors that share a
\* cell, render() leaves the point's color in bits 0-3 of that cell, for
\* every glyph of the line and of the point and either sub-row parity.
C7PointLowerNibble ==
    (last.op = "render" /\ C7Scene) =>
        printBuf[CellOf(C7Col, C7Sub)].co % 16 = ThePoint.key.co

\* C7 amended: render() draws the point after the line, and the point's write
\* leaves its color in the nibble that write selects: for a sentinel point
\* the nibble of its sub-row's parity; for a literal point bits 0-3, unless
\* the cell already shows the point's glyph once the line is drawn (the line
\* has that glyph, or the cell held it before render() and the line was drawn
\* with the sentinel), when the point's write changes nothing.
C7PointOnTop ==
    [][(last'.op = "render" /\ ~nullWrite' /\ Shared(RenderWindow)) =>
          LET sub   == PointSub(RenderWindow)
              i     == CellOf(PointCol(RenderWindow), sub)
              c     == printBuf'[i]
              lined == printLines(Grid, RenderWindow, Entries(lines), 0, 0).buf[i]
              pk    == ThePoint.key
          IN  /\ pk.ch = BLOCK => Nibble(c.co, sub) = pk.co
              /\ (pk.ch # BLOCK /\ lined.ch # pk.ch) => c.co % 16 = pk.co
              /\ (pk.ch # BLOCK /\ lined.ch = pk.ch) => c = lined]_vars

\* render() has drawn a sentinel point over a line in the upper nibble of
\* their cell, and bits 0-3 hold another color
C7Witness ==
    /\ last.op = "render" /\ C7Scene
    /\ ThePoint.key.ch = BLOCK /\ Upper(C7Sub)
    /\ printBuf[CellOf(C7Col, C7Sub)].co \div 16 = ThePoint.key.co
    /\ printBuf[CellOf(C7Col, C7Sub)].co % 16 # ThePoint.key.co

(* C8 *)

\* C8: printLine's loop ends; the first coordinate it passes to setCell is
\* (x1,y1), the last is (x2,y2), each differs from the one before by at most
\* 1 in x and in y, and (x2,y2) is passed once, last.
C8LinePath ==
    /\ [](pc # "idle" =>
            /\ cells # << >> => cells[1] = <<last.args[1], last.args[2]>>
            /\ \A i \in 2..Len(cells) :
                  /\ Abs(cells[i][1] - cells[i - 1][1]) <= 1
                  /\ Abs(cells[i][2] - cells[i - 1][2]) <= 1
            /\ \A i \in 1..Len(cells) :
                  cells[i] = <<last.args[3], last.args[4]>>
                      => (i = Len(cells) /\ pc = "done")
            /\ pc = "done" => cells[Len(cells)] = <<last.args[3], last.args[4]>>)
    /\ <>(pc = "done")

\* a walk of several steps between endpoints apart in x and, less, in y ended
C8Witness ==
    /\ pc = "done" /\ Len(cells) >= 4
    /\ walk.dx > walk.dy /\ walk.dy > 0
    /\ cells[1] = <<last.args[1], last.args[2]>>
    /\ cells[Len(cells)] = <<last.args[3], last.args[4]>>

(* C9 *)

\* C9: a sentinel-glyph setCell on the grid with a color in 0..15 changes
\* only the cell (col, subrow div 2); there it sets one nibble to the color
\* (bits 0-3 for an even sub-row, bits 4-7 for an odd one, the reverse with
\* invertedY), keeps the other nibble, and changes the glyph only from EMPTY
\* to BLOCK.
C9HalfBlockWrite ==
    [][(/\ last'.op = "setCell" /\ last'.args[4] = BLOCK
        /\ last'.args[3] \in 0..15
        /\ OnGrid(last'.args[1], last'.args[2])) =>
          LET sub == last'.args[2]
              i   == CellOf(last'.args[1], sub)
              c   == printBuf'[i]
              old == printBuf[i]
          IN  /\ Len(printBuf') = Len(printBuf)
              /\ \A j \in 1..Len(printBuf) : j # i => printBuf'[j] = printBuf[j]
              /\ Nibble(c.co, sub) = last'.args[3]
              /\ OtherNibble(c.co, sub) = OtherNibble(old.co, sub)
              /\ c.ch = IF old.ch = EMPTY THEN BLOCK ELSE old.ch]_vars

\* with invertedY an even sub-row was written into bits 4-7 of a cell that
\* keeps its literal glyph and its bits 0-3, beside another cell
C9Witness ==
    /\ last.op = "setCell" /\ last.args[4] = BLOCK
    /\ OnGrid(last.args[1], last.args[2])
    /\ invertedY /\ last.args[2] % 2 = 0 /\ w = 2
    /\ LET c == printBuf[CellOf(last.args[1], last.args[2])]
       IN  c.ch = 97 /\ c.co \div 16 = last.args[3] /\ last.args[3] = 9
           /\ c.co % 16 = WHITE

(* C10 *)

\* C10: every cell write that passes setCell's bounds check goes to an
\* allocated printBuf of exactly w*h cells.
C10WritesAllocated ==
    /\ ~nullWrite
    /\ ~printBufNull => Len(printBuf) = w * h

=============================================================================
